---- MODULE Spec2Model ----
(***************************************************************************)
(* A model of src/app.py: the lesson store (one JSON document per slug),   *)
(* the lesson editing pipeline (edit / save / preview), the grading        *)
(* engine of submit_lesson and the remote judge adapter grade_with_llm.    *)
(*                                                                         *)
(* Text is modelled as a sequence of one-character strings, JSON text as a *)
(* sequence of tokens, JSON values as tagged records.                      *)
(***************************************************************************)
EXTENDS Integers, Sequences, FiniteSets, TLC

VARIABLES
    files,   \* LESSONS_PATH: slug -> the text of <slug>.json, or NoFile
    cred,    \* where the judge's credential can come from (environment, key file)
    req,     \* the request being served (its operation and inputs)
    res,     \* the response to it
    tasks    \* the requests in flight when handlers run concurrently

vars == <<files, cred, req, res, tasks>>

(***************************************************************************)
(* Text                                                                    *)
(***************************************************************************)

Uppers == <<"A","B","C","D","E","F","G","H","I","J","K","L","M",
            "N","O","P","Q","R","S","T","U","V","W","X","Y","Z">>
Lowers == <<"a","b","c","d","e","f","g","h","i","j","k","l","m",
            "n","o","p","q","r","s","t","u","v","w","x","y","z">>
Digits == <<"0","1","2","3","4","5","6","7","8","9">>

Range(f) == { f[i] : i \in DOMAIN f }

\* str.lower() of one character
LowerChar(c) ==
    IF c \in Range(Uppers)
    THEN Lowers[CHOOSE i \in DOMAIN Uppers : Uppers[i] = c]
    ELSE c

\* str.lower()
Lower(s) == [ i \in DOMAIN s |-> LowerChar(s[i]) ]

\* the characters str.strip() removes and the regex class \s matches
Whitespace == {" ", "\t", "\n", "\r", "\f"}

RECURSIVE LStrip(_, _)
LStrip(s, chars) ==
    IF s # <<>> /\ Head(s) \in chars THEN LStrip(Tail(s), chars) ELSE s

RECURSIVE RStrip(_, _)
RStrip(s, chars) ==
    IF s # <<>> /\ s[Len(s)] \in chars
    THEN RStrip(SubSeq(s, 1, Len(s) - 1), chars)
    ELSE s

\* str.strip(chars)
StripChars(s, chars) == RStrip(LStrip(s, chars), chars)

\* str.strip()
Strip(s) == StripChars(s, Whitespace)

\* whether t occurs in s at index i
OccursAt(t, s, i) ==
    /\ i + Len(t) - 1 <= Len(s)
    /\ \A k \in 1..Len(t) : s[i + k - 1] = t[k]

\* Python's `t in s` for strings
IsSubstring(t, s) == \E i \in 1..(Len(s) + 1) : OccursAt(t, s, i)

\* the strings of length at most n over an alphabet
RECURSIVE StringsUpTo(_, _)
StringsUpTo(alphabet, n) ==
    IF n = 0 THEN {<<>>}
    ELSE LET shorter == StringsUpTo(alphabet, n - 1)
         IN  shorter \cup { Append(s, c) : s \in shorter, c \in alphabet }

(***************************************************************************)
(* JSON: values are tagged records, text is a sequence of tokens (the      *)
(* scalars themselves and the punctuation); white space and indentation    *)
(* are not tokens.  Numbers are exact decimals, held in hundredths.        *)
(***************************************************************************)

JNull == [t |-> "null"]
JBool(b) == [t |-> "bool", b |-> b]
JNum(n) == [t |-> "num", n |-> n]
JStr(s) == [t |-> "str", s |-> s]
JList(l) == [t |-> "list", l |-> l]
JObj(o) == [t |-> "obj", o |-> o]
P(c) == [t |-> "p", p |-> c]

EmptyMap == [k \in {} |-> JNull]
Put(o, k, v) == [x \in (DOMAIN o) \cup {k} |-> IF x = k THEN v ELSE o[x]]

Scalars == {"null", "bool", "num", "str"}

ParseFail == [ok |-> FALSE, v |-> JNull, rest |-> <<>>]
ParseOk(v, rest) == [ok |-> TRUE, v |-> v, rest |-> rest]

\* json.loads, by recursive descent: value, then the items of a list or the
\* members of an object (a repeated key keeps its last value)
RECURSIVE ParseValue(_), ParseItems(_, _), ParseMembers(_, _)
ParseValue(toks) ==
    IF toks = <<>> THEN ParseFail
    ELSE LET h == Head(toks) IN
         IF h.t \in Scalars THEN ParseOk(h, Tail(toks))
         ELSE IF h = P("[") THEN
              IF Tail(toks) # <<>> /\ Head(Tail(toks)) = P("]")
              THEN ParseOk(JList(<<>>), Tail(Tail(toks)))
              ELSE ParseItems(Tail(toks), <<>>)
         ELSE IF h = P("{") THEN
              IF Tail(toks) # <<>> /\ Head(Tail(toks)) = P("}")
              THEN ParseOk(JObj(EmptyMap), Tail(Tail(toks)))
              ELSE ParseMembers(Tail(toks), EmptyMap)
         ELSE ParseFail

ParseItems(toks, acc) ==
    LET r == ParseValue(toks) IN
    IF ~r.ok \/ r.rest = <<>> THEN ParseFail
    ELSE IF Head(r.rest) = P(",") THEN ParseItems(Tail(r.rest), Append(acc, r.v))
    ELSE IF Head(r.rest) = P("]") THEN ParseOk(JList(Append(acc, r.v)), Tail(r.rest))
    ELSE ParseFail

ParseMembers(toks, acc) ==
    IF Len(toks) < 2 \/ Head(toks).t # "str" \/ toks[2] # P(":") THEN ParseFail
    ELSE LET r == ParseValue(SubSeq(toks, 3, Len(toks))) IN
         IF ~r.ok \/ r.rest = <<>> THEN ParseFail
         ELSE IF Head(r.rest) = P(",")
              THEN ParseMembers(Tail(r.rest), Put(acc, Head(toks).s, r.v))
         ELSE IF Head(r.rest) = P("}")
              THEN ParseOk(JObj(Put(acc, Head(toks).s, r.v)), Tail(r.rest))
         ELSE ParseFail

\* json.loads(text) / json.load(f): the whole text is one value
Loads(text) ==
    LET r == ParseValue(text) IN
    IF r.ok /\ r.rest = <<>> THEN r ELSE ParseFail

\* json.dumps / json.dump: the tokens of a value
RECURSIVE Dumps(_), DumpItems(_), DumpMembers(_)
Dumps(v) ==
    IF v.t \in Scalars THEN <<v>>
    ELSE IF v.t = "list" THEN <<P("[")>> \o DumpItems(v.l) \o <<P("]")>>
    ELSE <<P("{")>> \o DumpMembers(v.o) \o <<P("}")>>

DumpItems(l) ==
    IF l = <<>> THEN <<>>
    ELSE Dumps(Head(l)) \o (IF Len(l) > 1 THEN <<P(",")>> ELSE <<>>) \o DumpItems(Tail(l))

DumpMembers(o) ==
    IF DOMAIN o = {} THEN <<>>
    ELSE LET k == CHOOSE x \in DOMAIN o : TRUE
             rest == [x \in (DOMAIN o) \ {k} |-> o[x]]
         IN  <<JStr(k), P(":")>> \o Dumps(o[k])
             \o (IF DOMAIN rest # {} THEN <<P(",")>> ELSE <<>>) \o DumpMembers(rest)

\* bool(x) of a decoded JSON value: `not x` is its negation
Truthy(v) ==
    CASE v.t = "null" -> FALSE
      [] v.t = "bool" -> v.b
      [] v.t = "num"  -> v.n # 0
      [] v.t = "str"  -> v.s # <<>>
      [] v.t = "list" -> v.l # <<>>
      [] v.t = "obj"  -> DOMAIN v.o # {}

\* dict.get(key, default)
Get(obj, k, default) == IF k \in DOMAIN obj.o THEN obj.o[k] ELSE default

\* the keys and literals the code names
K_title == <<"t","i","t","l","e">>
K_markdown_content == <<"m","a","r","k","d","o","w","n","_","c","o","n","t","e","n","t">>
K_answer_key == <<"a","n","s","w","e","r","_","k","e","y">>
K_type == <<"t","y","p","e">>
K_answer == <<"a","n","s","w","e","r">>
K_question_text == <<"q","u","e","s","t","i","o","n","_","t","e","x","t">>
K_expected_answer == <<"e","x","p","e","c","t","e","d","_","a","n","s","w","e","r">>
K_numeric == <<"n","u","m","e","r","i","c">>
K_tolerance == <<"t","o","l","e","r","a","n","c","e">>
K_contains == <<"c","o","n","t","a","i","n","s">>
K_min == <<"m","i","n">>
S_exact_match == <<"e","x","a","c","t","-","m","a","t","c","h">>
S_llm_check == <<"l","l","m","-","c","h","e","c","k">>
S_correct == <<"c","o","r","r","e","c","t">>
S_Lesson == <<"L","e","s","s","o","n">>
S_Untitled_Lesson == <<"U","n","t","i","t","l","e","d"," ","L","e","s","s","o","n">>

(***************************************************************************)
(* Lesson Store                                                            *)
(***************************************************************************)

\* a request that has been received and not yet answered
Pending == [status |-> "pending"]

\* no file of that name in LESSONS_PATH
NoFile == <<"no file">>

\* request.form.get(name) of a field the form does not carry: None
Missing == <<"None">>

Hashes == <<"#", "#", "#">>

Min(S) == CHOOSE x \in S : \A y \in S : x <= y

\* the first index at or after j that is past the end of s or holds no character of chars
SkipWhile(s, j, chars) ==
    Min({ e \in j..(Len(s) + 1) : e > Len(s) \/ s[e] \notin chars })

\* the first index at or after j that is past the end of s or holds a character of chars
SkipUntil(s, j, chars) ==
    Min({ e \in j..(Len(s) + 1) : e > Len(s) \/ s[e] \in chars })

\* re.search(r'###\s*(.*)', s): the leftmost "###" anywhere in s, then all the white
\* space after it (line ends included), then the rest of that line as group 1.
\* start and end are the indexes of the first and last character matched.
SearchHeading(s) ==
    LET at == { i \in 1..Len(s) : OccursAt(Hashes, s, i) } IN
    IF at = {} THEN [found |-> FALSE, start |-> 0, end |-> 0, group |-> <<>>]
    ELSE LET i == Min(at)
             j == SkipWhile(s, i + 3, Whitespace)
             e == SkipUntil(s, j, {"\n"})
         IN  [found |-> TRUE, start |-> i, end |-> e - 1, group |-> SubSeq(s, j, e - 1)]

\* markdown2.markdown(text): the HTML of an external renderer, kept symbolic
markdown(text) == [html_of |-> text]

\* parse_lesson_file(slug), given the content of <slug>.json: (None, None, None)
\* when there is no file; json.load or a .get on a document that is no object
\* raises; else the stored title, the markdown after its heading (body) rendered
\* to HTML, and the answer key
parse_lesson_file(file) ==
    IF file = NoFile THEN [status |-> "none"]
    ELSE LET doc == Loads(file) IN
         IF ~doc.ok \/ doc.v.t # "obj" THEN [status |-> "raise"]
         ELSE LET title == Get(doc.v, K_title, JStr(S_Lesson))
                  markdown_content == Get(doc.v, K_markdown_content, JStr(<<>>))
                  answer_key == Get(doc.v, K_answer_key, JObj(EmptyMap))
              IN  IF markdown_content.t # "str" THEN [status |-> "raise"]
                  ELSE LET title_match == SearchHeading(markdown_content.s)
                           content_for_html ==
                               IF title_match.found
                               THEN Strip(SubSeq(markdown_content.s, title_match.end + 1,
                                                 Len(markdown_content.s)))
                               ELSE markdown_content.s
                       IN  [status |-> "ok", title |-> title, body |-> content_for_html,
                            html_content |-> markdown(content_for_html),
                            answer_key |-> answer_key]

\* parse_raw_lesson_file(slug): the stored title, the markdown as stored and the
\* answer key serialized again
parse_raw_lesson_file(file) ==
    IF file = NoFile THEN [status |-> "none"]
    ELSE LET doc == Loads(file) IN
         IF ~doc.ok \/ doc.v.t # "obj" THEN [status |-> "raise"]
         ELSE [status |-> "ok",
               title |-> Get(doc.v, K_title, JStr(S_Lesson)),
               markdown_content |-> Get(doc.v, K_markdown_content, JStr(<<>>)),
               json_string |-> Dumps(Get(doc.v, K_answer_key, JObj(EmptyMap)))]

\* the document save_lesson writes
lesson_data(title, markdown_content, answer_key) ==
    JObj(Put(Put(Put(EmptyMap, K_title, JStr(title)),
                 K_markdown_content, JStr(markdown_content)),
             K_answer_key, answer_key))

\* save_lesson's title: the heading's text, stripped, or the placeholder
SaveTitle(markdown_content) ==
    LET title_match == SearchHeading(markdown_content) IN
    IF title_match.found THEN Strip(title_match.group) ELSE S_Untitled_Lesson

\* `not x` of a form field: absent or empty
NotGiven(x) == x = Missing \/ x = <<>>

\* save_lesson that writes the file before it validates the answer key
save_lesson_WriteFirst(file, markdown_content, answer_key_json) ==
    IF NotGiven(markdown_content) \/ NotGiven(answer_key_json)
    THEN [code |-> 400, file |-> file]
    ELSE IF file = NoFile THEN [code |-> 404, file |-> file]
    ELSE LET answer_key == Loads(answer_key_json)
             written == Dumps(lesson_data(SaveTitle(markdown_content),
                                          Strip(markdown_content), answer_key.v))
         IN  IF ~answer_key.ok THEN [code |-> 400, file |-> written]
             ELSE [code |-> 302, file |-> written]

\* save_lesson that creates the document of a slug that has none
save_lesson_Create(file, markdown_content, answer_key_json) ==
    IF NotGiven(markdown_content) \/ NotGiven(answer_key_json)
    THEN [code |-> 400, file |-> file]
    ELSE LET answer_key == Loads(answer_key_json) IN
         IF ~answer_key.ok THEN [code |-> 400, file |-> file]
         ELSE [code |-> 302,
               file |-> Dumps(lesson_data(SaveTitle(markdown_content),
                                          Strip(markdown_content), answer_key.v))]

\* save_lesson(slug), run without interruption, given the content of <slug>.json:
\* the response code and the content of the file afterwards
save_lesson(file, markdown_content, answer_key_json) ==
    IF NotGiven(markdown_content) \/ NotGiven(answer_key_json)
    THEN [code |-> 400, file |-> file]
    ELSE LET answer_key == Loads(answer_key_json) IN
         IF ~answer_key.ok THEN [code |-> 400, file |-> file]
         ELSE IF file = NoFile THEN [code |-> 404, file |-> file]
         ELSE [code |-> 302,
               file |-> Dumps(lesson_data(SaveTitle(markdown_content),
                                          Strip(markdown_content), answer_key.v))]

\* preview_lesson: the first match of the heading pattern removed, the rest rendered
preview_lesson(markdown_text) ==
    LET m == SearchHeading(markdown_text) IN
    markdown(IF m.found
             THEN SubSeq(markdown_text, 1, m.start - 1)
                  \o SubSeq(markdown_text, m.end + 1, Len(markdown_text))
             ELSE markdown_text)

(***************************************************************************)
(* Remote Judge Adapter                                                    *)
(***************************************************************************)

\* What the remote service does with one request: the transport fails
\* ("ConnectionError"), the 15 s timeout passes ("Timeout"), the status is not
\* 2xx ("HTTPError"), the body is no JSON ("ValueError"), the JSON lacks
\* choices[0].message.content ("KeyError"), that content is null
\* ("AttributeError"), or it is a text ("content").
RemoteFailures ==
    {"ConnectionError", "Timeout", "HTTPError", "ValueError", "KeyError", "AttributeError"}

Failed(kind) == [kind |-> kind, content |-> <<>>]
Replied(content) == [kind |-> "content", content |-> content]

Returned(value) == [raised |-> FALSE, value |-> value]
Raised == [raised |-> TRUE, value |-> FALSE]

\* grade_with_llm comparing with `in` instead of `==`
grade_with_llm_In(credential, remote) ==
    IF ~credential.env /\ credential.keyfile = "absent" THEN Returned(FALSE)
    ELSE IF ~credential.env /\ credential.keyfile = "unreadable" THEN Raised
    ELSE IF remote.kind # "content" THEN Returned(FALSE)
    ELSE Returned(IsSubstring(S_correct, Lower(Strip(remote.content))))

\* grade_with_llm(question, student_answer, expected_answer), given where the
\* credential can come from and what the remote service does.  The three texts
\* only fill the prompt.  With OPENROUTER_API_KEY unset the key is read from
\* openrouter_key.txt: only FileNotFoundError is caught there; everything from
\* the request on is inside `try ... except Exception`.
grade_with_llm(credential, remote) ==
    IF ~credential.env /\ credential.keyfile = "absent" THEN Returned(FALSE)
    ELSE IF ~credential.env /\ credential.keyfile = "unreadable" THEN Raised
    ELSE IF remote.kind # "content" THEN Returned(FALSE)
    ELSE Returned(Lower(Strip(remote.content)) = S_correct)

(***************************************************************************)
(* Grading Engine                                                          *)
(***************************************************************************)

\* the number of decimal places the model's numbers keep
FracDigits == 2

\* the number 1 in the model's fixed-point unit
Unit == 10 ^ FracDigits

\* floats: a finite decimal, an infinity or nan
Fin(n) == [k |-> "fin", n |-> n]
PosInf == [k |-> "inf", n |-> 1]
NegInf == [k |-> "inf", n |-> -1]
NaN == [k |-> "nan", n |-> 0]

\* a - b
FSub(a, b) ==
    IF a.k = "nan" \/ b.k = "nan" THEN NaN
    ELSE IF a.k = "inf" THEN (IF b.k = "inf" /\ b.n = a.n THEN NaN ELSE a)
    ELSE IF b.k = "inf" THEN [k |-> "inf", n |-> -b.n]
    ELSE Fin(a.n - b.n)

\* abs(a)
FAbs(a) ==
    IF a.k = "nan" THEN NaN
    ELSE IF a.k = "inf" THEN PosInf
    ELSE Fin(IF a.n < 0 THEN -a.n ELSE a.n)

\* a <= b
FLe(a, b) ==
    IF a.k = "nan" \/ b.k = "nan" THEN FALSE
    ELSE IF a.k = "inf" THEN a.n < 0 \/ (b.k = "inf" /\ b.n > 0)
    ELSE IF b.k = "inf" THEN b.n > 0
    ELSE a.n <= b.n

DigitValue(c) == (CHOOSE i \in DOMAIN Digits : Digits[i] = c) - 1

IsDigits(s) == \A i \in DOMAIN s : s[i] \in Range(Digits)

\* the integer a string of digits denotes
RECURSIVE DigitsValue(_)
DigitsValue(s) ==
    IF s = <<>> THEN 0
    ELSE 10 * DigitsValue(SubSeq(s, 1, Len(s) - 1)) + DigitValue(s[Len(s)])

FloatOk(f) == [ok |-> TRUE, f |-> f]
FloatError == [ok |-> FALSE, f |-> NaN]

S_inf == <<"i", "n", "f">>
S_infinity == <<"i", "n", "f", "i", "n", "i", "t", "y">>
S_nan == <<"n", "a", "n">>

\* float(s) of a string: white space stripped, an optional sign, then inf,
\* infinity or nan in any case, or digits with at most one point and a digit on
\* one side of it; anything else is a ValueError.  (Exponents and digit-group
\* underscores are not in the model's alphabet; digits past FracDigits are dropped.)
ParseFloat(s) ==
    LET t == Strip(s)
        signed == t # <<>> /\ Head(t) \in {"+", "-"}
        sign == IF signed /\ Head(t) = "-" THEN -1 ELSE 1
        u == IF signed THEN Tail(t) ELSE t
        low == Lower(u)
        dots == { i \in DOMAIN u : u[i] = "." }
    IN  IF low \in {S_inf, S_infinity} THEN FloatOk([k |-> "inf", n |-> sign])
        ELSE IF low = S_nan THEN FloatOk(NaN)
        ELSE IF dots = {} THEN
             IF u # <<>> /\ IsDigits(u) THEN FloatOk(Fin(sign * DigitsValue(u) * Unit))
             ELSE FloatError
        ELSE LET d == Min(dots)
                 whole == SubSeq(u, 1, d - 1)
                 frac == SubSeq(u, d + 1, Len(u))
                 kept == SubSeq(frac, 1, IF Len(frac) < FracDigits THEN Len(frac) ELSE FracDigits)
             IN  IF IsDigits(whole) /\ IsDigits(frac) /\ Len(whole) + Len(frac) > 0
                 THEN FloatOk(Fin(sign * (DigitsValue(whole) * Unit
                                          + DigitsValue(kept) * 10 ^ (FracDigits - Len(kept)))))
                 ELSE FloatError

\* float(x) of a decoded JSON value: a number or a boolean converts, a string is
\* parsed (ValueError), anything else is a TypeError
ToFloat(v) ==
    CASE v.t = "num"  -> FloatOk(Fin(v.n))
      [] v.t = "bool" -> FloatOk(Fin(IF v.b THEN Unit ELSE 0))
      [] v.t = "str"  -> ParseFloat(v.s)
      [] OTHER        -> FloatError

\* the exact-match branch: "raise" when the rule's answer is no string
ExactMatch(rule, user_answer) ==
    LET correct_answer == Get(rule, K_answer, JStr(<<>>)) IN
    IF correct_answer.t # "str" THEN "raise"
    ELSE IF Lower(Strip(user_answer)) = Lower(Strip(correct_answer.s))
         THEN "correct" ELSE "incorrect"

\* the numeric branch with `<` for `<=`
Numeric_Strict(rule, user_answer) ==
    LET user_num == ParseFloat(user_answer)
        correct_num == ToFloat(rule.o[K_numeric])
        tolerance == ToFloat(Get(rule, K_tolerance, JNum(0)))
        diff == FAbs(FSub(user_num.f, correct_num.f))
    IN  IF user_num.ok /\ correct_num.ok /\ tolerance.ok
           /\ FLe(diff, tolerance.f) /\ diff # tolerance.f
        THEN "correct" ELSE "incorrect"

\* the numeric branch: ValueError and TypeError of the three conversions are caught
Numeric(rule, user_answer) ==
    LET user_num == ParseFloat(user_answer)
        correct_num == ToFloat(rule.o[K_numeric])
        tolerance == ToFloat(Get(rule, K_tolerance, JNum(0)))
    IN  IF user_num.ok /\ correct_num.ok /\ tolerance.ok
           /\ FLe(FAbs(FSub(user_num.f, correct_num.f)), tolerance.f)
        THEN "correct" ELSE "incorrect"

\* what `for keyword in keywords` goes through: the items of a list, the
\* characters of a string, the keys of an object
Iterable(v) == v.t \in {"list", "str", "obj"}

Keywords(v) ==
    CASE v.t = "list" -> v.l
      [] v.t = "str"  -> [i \in DOMAIN v.s |-> JStr(<<v.s[i]>>)]
      [] v.t = "obj"  -> LET RECURSIVE Keys(_)
                             Keys(S) == IF S = {} THEN <<>>
                                        ELSE LET k == CHOOSE x \in S : TRUE
                                             IN  <<JStr(k)>> \o Keys(S \ {k})
                         IN  Keys(DOMAIN v.o)

\* the contains branch: iterating something that is no list, string or object, a
\* keyword that is no string, or a `min` that is no number raises
Contains(rule, user_answer) ==
    LET keywords == Get(rule, K_contains, JList(<<>>))
        min_matches == Get(rule, K_min, JNum(Unit))
    IN  IF ~Iterable(keywords) THEN "raise"
        ELSE LET ks == Keywords(keywords) IN
             IF \E i \in DOMAIN ks : ks[i].t # "str" THEN "raise"
             ELSE LET matches == Cardinality({ i \in DOMAIN ks :
                                     IsSubstring(Lower(ks[i].s), Lower(user_answer)) })
                  IN  IF min_matches.t \notin {"num", "bool"} THEN "raise"
                      ELSE IF FLe(ToFloat(min_matches).f, Fin(matches * Unit))
                           THEN "correct" ELSE "incorrect"

\* the verdict loop's body with the legacy keys looked at before `type`
Verdict_LegacyFirst(answer_key, question_id, user_answer, credential, remote) ==
    LET rule == Get(answer_key, question_id, JNull) IN
    IF ~Truthy(rule) THEN "no-rule"
    ELSE IF rule.t # "obj" THEN "raise"
    ELSE LET grading_type == Get(rule, K_type, JNull) IN
         IF K_numeric \in DOMAIN rule.o THEN Numeric(rule, user_answer)
         ELSE IF K_contains \in DOMAIN rule.o THEN Contains(rule, user_answer)
         ELSE IF grading_type = JStr(S_exact_match) THEN ExactMatch(rule, user_answer)
         ELSE IF grading_type = JStr(S_llm_check) THEN
              LET is_correct == grade_with_llm(credential, remote) IN
              IF is_correct.raised THEN "raise"
              ELSE IF is_correct.value THEN "correct" ELSE "incorrect"
         ELSE "incorrect"

\* the body of submit_lesson's loop for one (question_id, user_answer): the
\* verdict recorded in feedback, or "raise" when the body raises
Verdict(answer_key, question_id, user_answer, credential, remote) ==
    LET rule == Get(answer_key, question_id, JNull) IN
    IF ~Truthy(rule) THEN "no-rule"
    ELSE IF rule.t # "obj" THEN "raise"
    ELSE LET grading_type == Get(rule, K_type, JNull) IN
         IF grading_type = JStr(S_exact_match) THEN ExactMatch(rule, user_answer)
         ELSE IF grading_type = JStr(S_llm_check) THEN
              LET is_correct == grade_with_llm(credential, remote) IN
              IF is_correct.raised THEN "raise"
              ELSE IF is_correct.value THEN "correct" ELSE "incorrect"
         ELSE IF K_numeric \in DOMAIN rule.o THEN Numeric(rule, user_answer)
         ELSE IF K_contains \in DOMAIN rule.o THEN Contains(rule, user_answer)
         ELSE "incorrect"

ServerError == [code |-> 500, status |-> "raise", feedback |-> <<>>]
AnswerKeyNotFound == [code |-> 404, status |-> "error", feedback |-> <<>>]

\* submit_lesson(slug), given the content of <slug>.json, the form (question id
\* -> answer), the credential sources and what the remote does on each question
submit_lesson(file, answers, credential, remote) ==
    LET lesson == parse_lesson_file(file) IN
    IF lesson.status = "raise" THEN ServerError
    ELSE IF lesson.status = "none" \/ ~Truthy(lesson.answer_key) THEN AnswerKeyNotFound
    ELSE IF DOMAIN answers = {}
         THEN [code |-> 200, status |-> "success", feedback |-> <<>>]
    ELSE IF lesson.answer_key.t # "obj" THEN ServerError
    ELSE LET feedback == [q \in DOMAIN answers |->
                             Verdict(lesson.answer_key, q, answers[q], credential, remote[q])]
         IN  IF \E q \in DOMAIN answers : feedback[q] = "raise" THEN ServerError
             ELSE [code |-> 200, status |-> "success", feedback |-> feedback]

(***************************************************************************)
(* Inputs                                                                  *)
(***************************************************************************)

\* an object from a sequence of <<key, value>> pairs
RECURSIVE Obj(_)
Obj(pairs) ==
    IF pairs = <<>> THEN EmptyMap
    ELSE Put(Obj(SubSeq(pairs, 1, Len(pairs) - 1)),
             pairs[Len(pairs)][1], pairs[Len(pairs)][2])

Q1 == <<"q","1">>
Q2 == <<"q","2">>
Q3 == <<"q","3">>

S_yes == <<"y","e","s">>
S_light == <<"l","i","g","h","t">>
S_water == <<"w","a","t","e","r">>
S_regex == <<"r","e","g","e","x">>

\* OPENROUTER_API_KEY set or not, and openrouter_key.txt absent, readable or
\* not readable (no permission, a directory, bytes that do not decode)
Credentials ==
    { [env |-> TRUE, keyfile |-> "absent"] }
    \cup { [env |-> FALSE, keyfile |-> k] : k \in {"absent", "readable", "unreadable"} }

\* markdown texts: a heading then a body; no heading; a level-4 heading before
\* the level-3 one; white space around everything; "###" alone on its line
MD_Heading == <<"#","#","#"," ","A","\n","x">>
MD_Plain == <<"x"," ","y">>
MD_H4 == <<"#","#","#","#"," ","S","\n","#","#","#"," ","T","\n","b">>
MD_Spaced == <<" ","#","#","#"," ","A"," ","\n"," ","x"," ","\n">>
MD_Bare == <<"#","#","#","\n","x","\n","y">>

\* rules, as objects
RuleExact == JObj(Obj(<< <<K_type, JStr(S_exact_match)>>, <<K_answer, JStr(S_yes)>> >>))
RuleLlm == JObj(Obj(<< <<K_type, JStr(S_llm_check)>>, <<K_question_text, JStr(S_water)>>,
                       <<K_expected_answer, JStr(S_light)>> >>))

\* answer key texts: an object of rules, a list, a text cut short
KeyRules == JObj(Obj(<< <<Q1, RuleExact>>, <<Q2, RuleLlm>> >>))
KT_Rules == Dumps(KeyRules)
KT_List == <<P("["), JStr(S_yes), P("]")>>
KT_Cut == SubSeq(KT_Rules, 1, 4)

Slugs == {"fractions", "decimals", "ghost"}

\* the documents the lessons directory starts with
InitialFiles ==
    [ s \in Slugs |->
        CASE s = "fractions" -> Dumps(lesson_data(SaveTitle(MD_Heading), Strip(MD_Heading), KeyRules))
          [] s = "decimals"  -> Dumps(lesson_data(SaveTitle(MD_Plain), Strip(MD_Plain), JObj(EmptyMap)))
          [] OTHER           -> NoFile ]

MarkdownInputs == {Missing, <<>>, MD_Heading, MD_Plain, MD_H4, MD_Spaced}
KeyInputs == {Missing, <<>>, KT_Rules, KT_List, KT_Cut}
PreviewInputs == {<<>>, MD_Heading, MD_Plain, MD_Bare}

AllRemote(outcome) == [q \in {Q1, Q2, Q3} |-> outcome]

SubmitInputs ==
    { [answers |-> a, remote |-> AllRemote(o)] :
        a \in { <<>>, Obj(<< <<Q1, <<" ","Y","e","s"," ">>>> >>), Obj(<< <<Q1, <<"N","o">>>>, <<Q2, <<"s","u","n">>>>, <<Q3, <<"x">>>> >>) },
        o \in { Replied(S_correct) } }

Requests ==
    { [op |-> "lesson", slug |-> s] : s \in Slugs }
    \cup { [op |-> "edit", slug |-> s] : s \in Slugs }
    \cup { [op |-> "save", slug |-> s, markdown_content |-> m, answer_key_json |-> k] :
             s \in Slugs, m \in MarkdownInputs, k \in KeyInputs }
    \cup { [op |-> "submit", slug |-> s, answers |-> i.answers, remote |-> i.remote] :
             s \in Slugs, i \in SubmitInputs }
    \cup { [op |-> "preview", markdown_text |-> m] : m \in PreviewInputs }

(***************************************************************************)
(* The routes, each run to completion on one request                       *)
(***************************************************************************)

Init ==
    /\ files = InitialFiles
    /\ cred \in { c \in Credentials : c.keyfile = "absent" }
    /\ tasks = <<>>
    /\ req = [op |-> "none"]
    /\ res = [status |-> "none"]

\* a request arrives once the one before it has been answered
Receive(r) ==
    /\ res # Pending
    /\ req' = r
    /\ res' = Pending
    /\ UNCHANGED <<files, cred, tasks>>

\* lesson(lesson_slug)
Lesson ==
    /\ req.op = "lesson"
    /\ res = Pending
    /\ LET l == parse_lesson_file(files[req.slug]) IN
       res' = IF l.status = "raise" THEN [code |-> 500, status |-> "raise"]
              ELSE IF l.status = "none" THEN [code |-> 404, status |-> "error"]
              ELSE [code |-> 200, status |-> "ok", title |-> l.title,
                    body |-> l.body, content |-> l.html_content]
    /\ UNCHANGED <<files, cred, req, tasks>>

\* edit_lesson(lesson_slug)
EditLesson ==
    /\ req.op = "edit"
    /\ res = Pending
    /\ LET l == parse_raw_lesson_file(files[req.slug]) IN
       res' = IF l.status = "raise" THEN [code |-> 500, status |-> "raise"]
              ELSE IF l.status = "none" THEN [code |-> 404, status |-> "error"]
              ELSE [code |-> 200, status |-> "ok", title |-> l.title,
                    raw_markdown |-> l.markdown_content, raw_json |-> l.json_string]
    /\ UNCHANGED <<cred, files, req, tasks>>

\* save_lesson(lesson_slug)
SaveLesson ==
    /\ req.op = "save"
    /\ res = Pending
    /\ LET r == save_lesson(files[req.slug], req.markdown_content, req.answer_key_json) IN
       /\ files' = [files EXCEPT ![req.slug] = r.file]
       /\ res' = [code |-> r.code, status |-> IF r.code = 302 THEN "ok" ELSE "error"]
    /\ UNCHANGED <<cred, req, tasks>>

\* submit_lesson(lesson_slug)
SubmitLesson ==
    /\ req.op = "submit"
    /\ res = Pending
    /\ res' = submit_lesson(files[req.slug], req.answers, cred, req.remote)
    /\ UNCHANGED <<files, cred, req, tasks>>

\* preview_lesson()
PreviewLesson ==
    /\ req.op = "preview"
    /\ res = Pending
    /\ res' = [code |-> 200, status |-> "ok", html |-> preview_lesson(req.markdown_text)]
    /\ UNCHANGED <<files, cred, req, tasks>>

Next ==
    \/ \E r \in Requests : Receive(r)
    \/ Lesson
    \/ EditLesson
    \/ SaveLesson
    \/ SubmitLesson
    \/ PreviewLesson

Spec == Init /\ [][Next]_vars

(***************************************************************************)
(* Grading, one submission per behaviour                                   *)
(***************************************************************************)

S_5 == <<"5">>
S_abc == <<"a","b","c">>
S_incorrect == <<"i","n","c","o","r","r","e","c","t">>

Tenth == Unit \div 10

\* rules of the four variants, with and without legacy keys beside `type`
RuleExactPadded == JObj(Obj(<< <<K_type, JStr(S_exact_match)>>, <<K_answer, JStr(<<" ","Y","e","s">>)>> >>))
RuleExactNoAnswer == JObj(Obj(<< <<K_type, JStr(S_exact_match)>> >>))
RuleExactLegacy ==
    JObj(Obj(<< <<K_type, JStr(S_exact_match)>>, <<K_answer, JStr(S_5)>>,
                <<K_numeric, JNum(7 * Unit)>>, <<K_contains, JList(<<JStr(S_light)>>)>> >>))
RuleLlmLegacy ==
    JObj(Obj(<< <<K_type, JStr(S_llm_check)>>, <<K_question_text, JStr(S_water)>>,
                <<K_expected_answer, JStr(S_light)>>,
                <<K_contains, JList(<<JStr(S_light)>>)>>, <<K_numeric, JNum(5 * Unit)>> >>))
RuleNum == JObj(Obj(<< <<K_numeric, JNum(5 * Unit)>>, <<K_tolerance, JNum(Tenth)>> >>))
RuleNumNoTol == JObj(Obj(<< <<K_numeric, JNum(5 * Unit)>> >>))
RuleNumContains ==
    JObj(Obj(<< <<K_numeric, JNum(5 * Unit)>>, <<K_contains, JList(<<JStr(S_5)>>)>> >>))
RuleContains1 ==
    JObj(Obj(<< <<K_contains, JList(<<JStr(S_light), JStr(S_water)>>)>>, <<K_min, JNum(Unit)>> >>))
RuleContains2 ==
    JObj(Obj(<< <<K_contains, JList(<<JStr(S_light), JStr(S_water)>>)>>, <<K_min, JNum(2 * Unit)>> >>))
RuleContainsDefault == JObj(Obj(<< <<K_contains, JList(<<JStr(<<"L","i","g","h","t">>)>>)>> >>))

\* rules of no known shape
RuleUnknownType == JObj(Obj(<< <<K_type, JStr(S_regex)>>, <<K_answer, JStr(S_yes)>> >>))
RuleNoShape == JObj(Obj(<< <<K_answer, JStr(S_yes)>> >>))
RuleEmpty == JObj(EmptyMap)

\* rules whose fields are not of the types the data model gives them
RuleNumText == JObj(Obj(<< <<K_numeric, JStr(S_abc)>> >>))
RuleString == JStr(S_yes)
RuleExactNumber == JObj(Obj(<< <<K_type, JStr(S_exact_match)>>, <<K_answer, JNum(5 * Unit)>> >>))
RuleContainsTextMin ==
    JObj(Obj(<< <<K_contains, JList(<<JStr(S_light)>>)>>, <<K_min, JStr(S_5)>> >>))

\* no rule under that question id
Absent == [t |-> "absent"]

GradeRules ==
    { Absent, RuleExact, RuleExactPadded, RuleExactNoAnswer, RuleExactLegacy, RuleLlm,
      RuleLlmLegacy, RuleNum, RuleNumNoTol, RuleNumContains, RuleContains1,
      RuleContains2, RuleContainsDefault, RuleUnknownType, RuleNoShape, RuleEmpty,
      RuleNumText, RuleString, RuleExactNumber, RuleContainsTextMin }

GradeAnswers ==
    { <<" "," ","Y","e","s"," "," ">>, <<"N","o">>, <<"5">>, <<" ","5",".","0","1">>, <<"5",".","2">>, <<"4",".","9">>, <<"7">>, <<"a","b","c">>, <<"n","a","n">>,
      <<"l","i","g","h","t">>, <<"L","I","G","H","T",","," ","w","a","t","e","r">>, <<>> }

RemoteOutcomes ==
    { Failed(k) : k \in RemoteFailures }
    \cup { Replied(c) : c \in { S_correct, S_incorrect, <<" ","C","o","r","r","e","c","t","\n">>, S_yes } }

IsLlm(rule) == rule.t = "obj" /\ Get(rule, K_type, JNull) = JStr(S_llm_check)

\* the number of questions a lesson has
MaxQuestions == 2

QuestionIds == <<Q1, Q2, Q3, <<"q","4">>>>

\* what the questions after the first carry: a rule and no answer, an answer and
\* no rule, a right answer, an answer for the judge, an answer to a rule that is
\* a string
Companions ==
    { [rule |-> RuleExact, answer |-> Missing, remote |-> Failed("Timeout")],
      [rule |-> Absent, answer |-> <<"x">>, remote |-> Failed("Timeout")],
      [rule |-> RuleExact, answer |-> <<"Y","E","S"," ">>, remote |-> Failed("Timeout")],
      [rule |-> RuleLlm, answer |-> <<"x">>, remote |-> Replied(S_correct)],
      [rule |-> RuleString, answer |-> <<"x">>, remote |-> Failed("Timeout")] }

\* one lesson and one submission: a sequence of [rule, answer, remote], one per question
GradeCases ==
    { <<first>> \o rest :
        first \in { [rule |-> r, answer |-> a, remote |-> o] :
                      r \in GradeRules, a \in GradeAnswers, o \in RemoteOutcomes }
                  \ { c \in [rule : GradeRules, answer : GradeAnswers, remote : RemoteOutcomes] :
                        ~IsLlm(c.rule) /\ c.remote # Failed("Timeout") },
        rest \in [1..(MaxQuestions - 1) -> Companions] }

CaseKey(c) ==
    JObj([q \in { QuestionIds[i] : i \in { j \in DOMAIN c : c[j].rule # Absent } } |->
            c[CHOOSE i \in DOMAIN c : QuestionIds[i] = q].rule])

CaseAnswers(c) ==
    [q \in { QuestionIds[i] : i \in { j \in DOMAIN c : c[j].answer # Missing } } |->
        c[CHOOSE i \in DOMAIN c : QuestionIds[i] = q].answer]

CaseRemote(c) ==
    [q \in {Q1, Q2, Q3} \cup Range(QuestionIds) |->
        IF \E i \in DOMAIN c : QuestionIds[i] = q
        THEN c[CHOOSE i \in DOMAIN c : QuestionIds[i] = q].remote
        ELSE Failed("Timeout")]

InitGrade ==
    /\ tasks = <<>>
    /\ cred \in Credentials
    /\ \E c \in GradeCases :
        /\ files = [InitialFiles EXCEPT !["fractions"] =
                       Dumps(lesson_data(SaveTitle(MD_Heading), Strip(MD_Heading), CaseKey(c)))]
        /\ req = [op |-> "submit", slug |-> "fractions",
                  answers |-> CaseAnswers(c), remote |-> CaseRemote(c)]
    /\ res = Pending

NextGrade == SubmitLesson

SpecGrade == InitGrade /\ [][NextGrade]_vars

(***************************************************************************)
(* The judge alone, one call per behaviour                                 *)
(***************************************************************************)

\* the bound on the length of what surrounds the judge's word in a reply
MaxPad == 1

PadAlphabet == {" ", "\n", "x", "."}

JudgeReplies ==
    { pre \o core \o suf :
        pre \in StringsUpTo(PadAlphabet, MaxPad),
        core \in { S_correct, S_incorrect, <<"C","o","r","r","e","c","t">>, S_yes },
        suf \in StringsUpTo(PadAlphabet, MaxPad) }

InitJudge ==
    /\ files = InitialFiles
    /\ tasks = <<>>
    /\ cred \in Credentials
    /\ req \in { [op |-> "judge", remote |-> o] :
                   o \in { Failed(k) : k \in RemoteFailures }
                         \cup { Replied(c) : c \in JudgeReplies } }
    /\ res = Pending

\* one call of grade_with_llm
Judge ==
    /\ req.op = "judge"
    /\ res = Pending
    /\ LET r == grade_with_llm(cred, req.remote) IN
       res' = [status |-> IF r.raised THEN "raise" ELSE "ok", value |-> r.value]
    /\ UNCHANGED <<files, cred, req, tasks>>

NextJudge == Judge

SpecJudge == InitJudge /\ [][NextJudge]_vars

(***************************************************************************)
(* The routes run by concurrent workers (the development server handles    *)
(* each request in a thread of its own).  save_lesson's write is           *)
(* open(lesson_file, "w"), which empties the file, then json.dump through  *)
(* a buffered writer, which reaches the file one buffer at a time from the *)
(* writer's own offset, the last one at close.                             *)
(***************************************************************************)

\* the number of requests in flight
NumWorkers == 3

\* the number of tokens one flush of the writer's buffer carries
BlockSize == 8

Workers == 1..NumWorkers

ConcSlugs == {"fractions", "ghost"}

Idle == [op |-> "idle", pc |-> "idle"]

\* the documents the concurrent saves write: a short one and a long one
ConcSaves ==
    { [markdown_content |-> MD_Plain, answer_key_json |-> KT_List],
      [markdown_content |-> MD_Heading, answer_key_json |-> KT_Rules] }

SavedDoc(s) ==
    Dumps(lesson_data(SaveTitle(s.markdown_content), Strip(s.markdown_content),
                      Loads(s.answer_key_json).v))

\* a byte no writer has written: what lies between the end of a file and a write past it
Hole == P("NUL")

\* the file after `data` is written at offset pos
WriteAt(file, pos, data) ==
    LET len == IF Len(file) > pos + Len(data) THEN Len(file) ELSE pos + Len(data) IN
    [ i \in 1..len |->
        IF i > pos /\ i <= pos + Len(data) THEN data[i - pos]
        ELSE IF i <= Len(file) THEN file[i]
        ELSE Hole ]

InitConc ==
    /\ files = [s \in ConcSlugs |-> InitialFiles[s]]
    /\ cred \in { c \in Credentials : c.env }
    /\ req = [op |-> "none"]
    /\ res = [status |-> "none"]
    /\ tasks = [w \in Workers |-> Idle]

\* save_lesson up to the parse of the answer key: the form is valid here
SaveStart(w, slug, s) ==
    /\ tasks[w] = Idle
    /\ tasks' = [tasks EXCEPT ![w] =
                    [op |-> "save", pc |-> "exists", slug |-> slug,
                     data |-> SavedDoc(s), pos |-> 0]]
    /\ UNCHANGED <<files, cred, req, res>>

\* lesson_file.exists()
SaveExists(w) ==
    /\ tasks[w].op = "save" /\ tasks[w].pc = "exists"
    /\ tasks' = [tasks EXCEPT ![w].pc =
                    IF files[tasks[w].slug] = NoFile THEN "404" ELSE "open"]
    /\ UNCHANGED <<files, cred, req, res>>

\* open(lesson_file, "w")
SaveOpen(w) ==
    /\ tasks[w].op = "save" /\ tasks[w].pc = "open"
    /\ files' = [files EXCEPT ![tasks[w].slug] = <<>>]
    /\ tasks' = [tasks EXCEPT ![w].pc = "write"]
    /\ UNCHANGED <<cred, req, res>>

\* one flush of json.dump's output; the last one is the close
SaveWrite(w) ==
    /\ tasks[w].op = "save" /\ tasks[w].pc = "write"
    /\ LET t == tasks[w]
           upto == IF t.pos + BlockSize < Len(t.data) THEN t.pos + BlockSize ELSE Len(t.data)
       IN  /\ files' = [files EXCEPT ![t.slug] =
                           WriteAt(files[t.slug], t.pos, SubSeq(t.data, t.pos + 1, upto))]
           /\ tasks' = [tasks EXCEPT ![w].pos = upto,
                                     ![w].pc = IF upto = Len(t.data) THEN "302" ELSE "write"]
    /\ UNCHANGED <<cred, req, res>>

\* lesson(lesson_slug) or submit_lesson(lesson_slug) arrives
ReadStart(w, op, slug) ==
    /\ tasks[w] = Idle
    /\ tasks' = [tasks EXCEPT ![w] = [op |-> op, pc |-> "read", slug |-> slug]]
    /\ UNCHANGED <<files, cred, req, res>>

\* parse_lesson_file reads the file as it is now
ReadFile(w) ==
    /\ tasks[w].op \in {"lesson", "submit"} /\ tasks[w].pc = "read"
    /\ LET l == parse_lesson_file(files[tasks[w].slug]) IN
       tasks' = [tasks EXCEPT ![w] =
                    [op |-> tasks[w].op, pc |-> "done", slug |-> tasks[w].slug,
                     status |-> l.status, seen |-> files[tasks[w].slug]]]
    /\ UNCHANGED <<files, cred, req, res>>

NextConc ==
    \/ \E w \in Workers, slug \in ConcSlugs, s \in ConcSaves : SaveStart(w, slug, s)
    \/ \E w \in Workers : SaveExists(w)
    \/ \E w \in Workers : SaveOpen(w)
    \/ \E w \in Workers : SaveWrite(w)
    \/ \E w \in Workers, op \in {"lesson", "submit"}, slug \in ConcSlugs : ReadStart(w, op, slug)
    \/ \E w \in Workers : ReadFile(w)

SpecConc == InitConc /\ [][NextConc]_vars

(***************************************************************************)
(* Slug Deriver                                                            *)
(***************************************************************************)

SlugChars == Range(Lowers) \cup Range(Digits)

\* re.sub(r'[^a-z0-9]+', '-', s): every maximal run outside [a-z0-9] becomes one "-"
RECURSIVE SubRuns(_, _)
SubRuns(s, inRun) ==
    IF s = <<>> THEN <<>>
    ELSE IF Head(s) \in SlugChars
         THEN <<Head(s)>> \o SubRuns(Tail(s), FALSE)
         ELSE (IF inRun THEN <<>> ELSE <<"-">>) \o SubRuns(Tail(s), TRUE)

\* slugify without the final strip('-')
slugify_NoStrip(title) == SubRuns(Lower(title), FALSE)

\* slugify(title)
slugify(title) == StripChars(SubRuns(Lower(title), FALSE), {"-"})

\* the bound on the length of a title given to slugify
MaxTitleLen == 4

\* printable ASCII, one character of each class slugify tells apart
TitleAlphabet == {"a", "B", "7", "-", " ", "!"}

Titles == StringsUpTo(TitleAlphabet, MaxTitleLen)

InitSlug ==
    /\ files = <<>>
    /\ cred = <<>>
    /\ tasks = <<>>
    /\ req \in { [op |-> "slugify", title |-> t] : t \in Titles }
    /\ res = Pending

\* a caller (student, teacher) derives the slug of a title
Slugify ==
    /\ req.op = "slugify"
    /\ res = Pending
    /\ res' = [status |-> "ok", slug |-> slugify(req.title)]
    /\ UNCHANGED <<files, cred, req, tasks>>

\* ... and the slug of that slug
Reslugify ==
    /\ req.op = "slugify"
    /\ res # Pending
    /\ req' = [op |-> "reslugify", title |-> res.slug, first |-> req.title]
    /\ res' = [status |-> "ok", slug |-> slugify(res.slug)]
    /\ UNCHANGED <<files, cred, tasks>>

NextSlug ==
    \/ Slugify
    \/ Reslugify

SpecSlug == InitSlug /\ [][NextSlug]_vars

\* a well-formed slug: only [a-z0-9] and hyphens, none leading, trailing or doubled
WellFormedSlug(s) ==
    /\ \A i \in DOMAIN s : s[i] \in SlugChars \cup {"-"}
    /\ s # <<>> => s[1] # "-" /\ s[Len(s)] # "-"
    /\ \A i \in 1..(Len(s) - 1) : ~(s[i] = "-" /\ s[i + 1] = "-")

\* C10: for every printable-ASCII title, slugify yields only lowercase
\* alphanumerics and single internal hyphens, and slugifying the slug again
\* returns it unchanged.
C10_SlugifyIdempotent ==
    /\ req.op = "slugify" /\ res # Pending => WellFormedSlug(res.slug)
    /\ req.op = "reslugify" => res.slug = req.title /\ WellFormedSlug(res.slug)

\* a title with upper case, punctuation runs and edge hyphens has been slugified twice
C10_Witness ==
    /\ req.op = "reslugify"
    /\ req.first = <<"-", "B", " ", "!">>
    /\ res.slug = <<"b">>

(***************************************************************************)
(* Properties of the lesson store (under Spec)                             *)
(***************************************************************************)

\* the inputs save_lesson rejects as a validation error
Invalid(markdown_content, answer_key_json) ==
    \/ NotGiven(markdown_content)
    \/ NotGiven(answer_key_json)
    \/ ~Loads(answer_key_json).ok

\* C5: a save whose markdown_content or answer_key_json is empty or missing, or
\* whose answer_key_json does not parse, is answered 400 and writes nothing: every
\* lesson document is the same after the call as before it.
C5_NoWriteOnValidationError ==
    [][ req.op = "save" /\ res = Pending
        => /\ res'.code = 400 => files' = files
           /\ Invalid(req.markdown_content, req.answer_key_json) => res'.code = 400
      ]_vars

\* an answer key that does not parse was refused for a lesson saved before
C5_Witness ==
    /\ req.op = "save"
    /\ res.status = "error" /\ res.code = 400
    /\ req.markdown_content = MD_Plain /\ req.answer_key_json = KT_Cut
    /\ files[req.slug] \notin {NoFile, InitialFiles[req.slug]}

\* the index after the spaces and tabs that start at i
Indent(s, i) == SkipWhile(s, i, {" ", "\t"})

\* the starts of the lines of s that are level-3 headings: "###" after
\* indentation only, followed by white space or the end of the text
H3Lines(s) ==
    { i \in 1..Len(s) :
        /\ i = 1 \/ s[i - 1] = "\n"
        /\ OccursAt(Hashes, s, Indent(s, i))
        /\ Indent(s, i) + 3 > Len(s) \/ s[Indent(s, i) + 3] \in Whitespace }

\* the text of the first level-3 heading, or the placeholder
RefTitle(s) ==
    IF H3Lines(s) = {} THEN S_Untitled_Lesson
    ELSE LET j == Indent(s, Min(H3Lines(s))) + 3
         IN  Strip(SubSeq(s, j, SkipUntil(s, j, {"\n"}) - 1))

\* the text after the first level-3 heading's line, trimmed; all of it without one
RefBody(s) ==
    IF H3Lines(s) = {} THEN Strip(s)
    ELSE Strip(SubSeq(s, SkipUntil(s, Min(H3Lines(s)), {"\n"}), Len(s)))

\* C6: after a successful save(slug, md, keyJson), load(slug) returns the text of
\* md's first level-3 heading as the title (the placeholder without one), md
\* without everything up to and including that heading line, trimmed, as the body,
\* and the answer key parsed from keyJson.
C6_SaveLoadRoundTrip ==
    req.op = "save" /\ res.status = "ok"
    => LET l == parse_lesson_file(files[req.slug]) IN
       /\ l.status = "ok"
       /\ l.title = JStr(RefTitle(req.markdown_content))
       /\ l.body = RefBody(req.markdown_content)
       /\ l.answer_key = Loads(req.answer_key_json).v

\* the slugs that have a lesson document
Lessons(dir) == { s \in DOMAIN dir : dir[s] # NoFile }

\* C7: whatever requests were served, the slugs that have a lesson document are
\* the initial ones; a save for a slug without a document fails (404 when its
\* inputs are valid, 400 when they are not) and creates nothing.
C7_SlugSetFixed ==
    /\ Lessons(files) = Lessons(InitialFiles)
    /\ req.op = "save" /\ res # Pending /\ InitialFiles[req.slug] = NoFile
       => res.code = IF Invalid(req.markdown_content, req.answer_key_json) THEN 400 ELSE 404

\* a valid save for a slug without a document was answered 404, after a save
\* that changed another lesson
C7_Witness ==
    /\ req.op = "save" /\ req.slug = "ghost"
    /\ ~Invalid(req.markdown_content, req.answer_key_json)
    /\ res.status = "error" /\ res.code = 404
    /\ files # InitialFiles

\* an answer key as the data model has it: a mapping whose values are rule objects
RuleMapping(answer_key) ==
    /\ answer_key.t = "obj"
    /\ \A q \in DOMAIN answer_key.o : answer_key.o[q].t = "obj"

\* C11: whatever saves were served, the answer key of every lesson document is a
\* mapping from question ids to rule objects, and every submission answered
\* since is a result (200) or not found (404), never a raise.
C11_SavedKeysGrade ==
    /\ \A s \in Lessons(files) :
         LET l == parse_lesson_file(files[s]) IN
         l.status = "ok" /\ RuleMapping(l.answer_key)
    /\ req.op = "submit" /\ res # Pending => res.code \in {200, 404}

(***************************************************************************)
(* Properties of the judge (under SpecJudge)                               *)
(***************************************************************************)

\* x and y are the same text when case is ignored
EqIgnoreCase(x, y) ==
    Len(x) = Len(y) /\ \A i \in DOMAIN x : LowerChar(x[i]) = LowerChar(y[i])

\* t is s without the white space at its two ends
IsTrimOf(t, s) ==
    /\ t = <<>> \/ (t[1] \notin Whitespace /\ t[Len(t)] \notin Whitespace)
    /\ \E i \in 0..Len(s) :
        /\ i + Len(t) <= Len(s)
        /\ \A k \in 1..Len(s) :
            IF k > i /\ k <= i + Len(t) THEN s[k] = t[k - i] ELSE s[k] \in Whitespace

\* s is the one word w, in any case, with nothing but white space around it
IsToken(s, w) ==
    \E i \in 1..(Len(s) + 1), j \in 0..Len(s) :
        IsTrimOf(SubSeq(s, i, j), s) /\ EqIgnoreCase(SubSeq(s, i, j), w)

\* C2: the judge returns true only when the remote replied and its reply is the
\* token `correct` itself (case and surrounding white space aside): a reply of
\* `incorrect`, or any other reply that only contains `correct` inside a longer
\* text, yields false.
C2_ExactToken ==
    req.op = "judge" /\ res # Pending /\ res.status = "ok" /\ res.value
    => req.remote.kind = "content" /\ IsToken(req.remote.content, S_correct)

\* the remote replied `incorrect` and the judge, with a credential, returned false
C2_Witness ==
    /\ req.op = "judge"
    /\ cred.env
    /\ req.remote = Replied(S_incorrect)
    /\ res.status = "ok" /\ ~res.value

(***************************************************************************)
(* Properties of grading (under SpecGrade)                                 *)
(***************************************************************************)

\* the answer key the lesson of the request has
StoredKey == parse_lesson_file(files[req.slug]).answer_key

\* the rule of a question, null when there is none
RuleOf(q) == Get(StoredKey, q, JNull)

Explicit(rule) ==
    rule.t = "obj" /\ Get(rule, K_type, JNull) \in {JStr(S_exact_match), JStr(S_llm_check)}

IsType(v, types) == v.t \in types

\* rules as the data model types them
IsExactMatch(rule) ==
    /\ rule.t = "obj" /\ Get(rule, K_type, JNull) = JStr(S_exact_match)
    /\ IsType(Get(rule, K_answer, JStr(<<>>)), {"str"})

IsLlmCheck(rule) ==
    /\ rule.t = "obj" /\ Get(rule, K_type, JNull) = JStr(S_llm_check)

IsNumeric(rule) ==
    /\ rule.t = "obj" /\ ~Explicit(rule) /\ K_numeric \in DOMAIN rule.o
    /\ IsType(rule.o[K_numeric], {"num"})
    /\ IsType(Get(rule, K_tolerance, JNum(0)), {"num"})

IsContains(rule) ==
    /\ rule.t = "obj" /\ ~Explicit(rule) /\ K_numeric \notin DOMAIN rule.o
    /\ K_contains \in DOMAIN rule.o
    /\ rule.o[K_contains].t = "list"
    /\ \A i \in DOMAIN rule.o[K_contains].l : rule.o[K_contains].l[i].t = "str"
    /\ IsType(Get(rule, K_min, JNum(Unit)), {"num"})

\* neither an explicit type nor a legacy key: also what is no object at all
Unrecognized(rule) ==
    \/ rule.t # "obj"
    \/ ~Explicit(rule) /\ K_numeric \notin DOMAIN rule.o /\ K_contains \notin DOMAIN rule.o

\* every rule of the key is of a variant of the data model, or of no known shape
\* but an object
WellTypedKey ==
    /\ StoredKey.t = "obj"
    /\ \A q \in DOMAIN StoredKey.o :
        LET rule == StoredKey.o[q] IN
        \/ IsExactMatch(rule) \/ IsLlmCheck(rule) \/ IsNumeric(rule) \/ IsContains(rule)
        \/ rule.t = "obj" /\ Unrecognized(rule)

Answered == req.op = "submit" /\ res # Pending

\* the judge call of a question fails: no credential to be had, no reply, or a
\* reply that is neither of the two words
JudgeFails(q) ==
    \/ ~cred.env /\ cred.keyfile # "readable"
    \/ req.remote[q].kind # "content"
    \/ /\ ~IsToken(req.remote[q].content, S_correct)
       /\ ~IsToken(req.remote[q].content, S_incorrect)

\* C1: when the judge call of an llm-check question fails, for whatever reason,
\* the submission is still answered with status success and a verdict for every
\* submitted question, and that question's verdict is `incorrect`.
C1_JudgeFailureIsIncorrect ==
    Answered /\ WellTypedKey
    => \A q \in DOMAIN req.answers :
         IsLlmCheck(RuleOf(q)) /\ JudgeFails(q)
         => /\ res.status = "success"
            /\ DOMAIN res.feedback = DOMAIN req.answers
            /\ res.feedback[q] = "incorrect"

\* With the key file readable, absent or not needed, every failure of the judge
\* call is absorbed as C1 says: the one that is not is a key file that exists and
\* cannot be read.
JudgeFailureAbsorbedUnlessUnreadable ==
    cred.keyfile # "unreadable" => C1_JudgeFailureIsIncorrect

\* a rule without its legacy keys
StripLegacy(rule) ==
    JObj([k \in (DOMAIN rule.o) \ {K_numeric, K_tolerance, K_contains, K_min} |-> rule.o[k]])

\* the answer and an exact-match rule's answer are equal after trimming, case ignored
RefExact(user_answer, rule) ==
    \E t \in { SubSeq(user_answer, i, j) : i \in 1..(Len(user_answer) + 1), j \in 0..Len(user_answer) } :
        /\ IsTrimOf(t, user_answer)
        /\ IsToken(Get(rule, K_answer, JStr(<<>>)).s, t)

\* C3: a rule whose type is exact-match or llm-check is graded by that variant
\* alone, whatever legacy numeric / contains keys it also carries: its verdict is
\* the verdict of the same rule without them, and for exact-match it is `correct`
\* exactly when the answers are equal after trimming, case ignored.
C3_ExplicitTypeFirst ==
    Answered /\ res.status = "success"
    => \A q \in DOMAIN req.answers :
         LET rule == RuleOf(q) IN
         /\ Explicit(rule)
            => res.feedback[q] =
                 Verdict(JObj(Put(EmptyMap, q, StripLegacy(rule))), q, req.answers[q],
                         cred, req.remote[q])
         /\ IsExactMatch(rule)
            => (res.feedback[q] = "correct" <=> RefExact(req.answers[q], rule))

\* an exact-match rule that also has a numeric key matching the answer, and keywords,
\* graded `incorrect` as the exact-match rule says
C3_Witness ==
    /\ Answered /\ res.status = "success"
    /\ Q1 \in DOMAIN req.answers
    /\ RuleOf(Q1) = RuleExactLegacy
    /\ Numeric(RuleOf(Q1), req.answers[Q1]) = "correct"
    /\ res.feedback[Q1] = "incorrect"

\* C4: a submitted question whose rule is missing or of no recognized shape gets
\* the verdict `no-rule`, and a submission of such questions raises no error
\* (stated here for answer keys whose rules are all objects).
C4_NoRuleForUnrecognized ==
    Answered /\ Truthy(StoredKey) /\ StoredKey.t = "obj"
    /\ (\A k \in DOMAIN StoredKey.o : StoredKey.o[k].t = "obj")
    => /\ res.status = "success"
          => \A q \in DOMAIN req.answers :
               Unrecognized(RuleOf(q)) => res.feedback[q] = "no-rule"
       /\ (\A q \in DOMAIN req.answers : Unrecognized(RuleOf(q)))
          => res.status = "success"

\* a numeric answer within the rule's tolerance
RefNumeric(user_answer, rule) ==
    LET u == ParseFloat(user_answer)
        value == rule.o[K_numeric].n
        tolerance == Get(rule, K_tolerance, JNum(0)).n
    IN  /\ u.ok /\ u.f.k = "fin"
        /\ u.f.n - value <= tolerance
        /\ value - u.f.n <= tolerance

\* at least min of the keywords occur in the answer, case ignored
RefContains(user_answer, rule) ==
    LET keywords == rule.o[K_contains].l
        found == { i \in DOMAIN keywords :
                     \E at \in 1..(Len(user_answer) + 1) :
                        /\ at + Len(keywords[i].s) - 1 <= Len(user_answer)
                        /\ EqIgnoreCase(keywords[i].s,
                                        SubSeq(user_answer, at, at + Len(keywords[i].s) - 1)) }
    IN  Cardinality(found) * Unit >= Get(rule, K_min, JNum(Unit)).n

LocallyGraded(rule) == IsExactMatch(rule) \/ IsNumeric(rule) \/ IsContains(rule)

\* C9: for a rule graded locally the verdict is `correct` exactly when the rule's
\* reference says so, and `incorrect` otherwise: exact-match by equality after
\* trimming, case ignored; numeric by |answer - value| <= tolerance, an answer that
\* is no number being `incorrect`; contains by at least min (default 1) keywords
\* occurring, case ignored.  A submission of such questions raises nothing.
C9_LocalVerdicts ==
    Answered
    => /\ res.status = "success"
          => \A q \in DOMAIN req.answers :
               LET rule == RuleOf(q)
                   right == res.feedback[q] = "correct"
               IN  /\ LocallyGraded(rule) => res.feedback[q] \in {"correct", "incorrect"}
                   /\ IsExactMatch(rule) => (right <=> RefExact(req.answers[q], rule))
                   /\ IsNumeric(rule) => (right <=> RefNumeric(req.answers[q], rule))
                   /\ IsContains(rule) => (right <=> RefContains(req.answers[q], rule))
       /\ (DOMAIN req.answers # {} /\ \A q \in DOMAIN req.answers : LocallyGraded(RuleOf(q)))
          => res.status = "success"

\* an answer on the edge of a numeric rule's tolerance graded `correct` beside
\* an answer that is no number graded `incorrect`
C9_Witness ==
    /\ Answered /\ res.status = "success"
    /\ Q1 \in DOMAIN req.answers
    /\ RuleOf(Q1) = RuleNum
    /\ req.answers[Q1] = <<"4",".","9">>
    /\ res.feedback[Q1] = "correct"

(***************************************************************************)
(* Properties of concurrent saves (under SpecConc)                         *)
(***************************************************************************)

\* the complete documents a lesson can hold: the initial one and what each save writes
CompleteDocs(slug) == {InitialFiles[slug]} \cup { SavedDoc(s) : s \in ConcSaves }

Saving(w) == tasks[w].op = "save" /\ tasks[w].pc \in {"open", "write"}

\* C8: whatever the interleaving of saves, loads and gradings on one slug, what a
\* load or a grading reads, and what the file holds once no save is under way, is
\* the complete document of exactly one save, or the initial one.
C8_AtomicOverwrite ==
    /\ \A w \in Workers :
         tasks[w].op \in {"lesson", "submit"} /\ tasks[w].pc = "done" /\ tasks[w].status # "none"
         => tasks[w].seen \in CompleteDocs(tasks[w].slug)
    /\ \A slug \in ConcSlugs :
         (files[slug] # NoFile /\ \A w \in Workers : ~(Saving(w) /\ tasks[w].slug = slug))
         => files[slug] \in CompleteDocs(slug)

====
